---- MODULE Spec2Model ----
(***************************************************************************)
(* Model of secrust: Secret<Data> (src/src/api.rs), an immovable,          *)
(* zero-on-drop container whose content is reached only through reader     *)
(* and updater capabilities, and the example capabilities of               *)
(* src/src/actions.rs (file updater, AES-GCM cipher / decipher readers).   *)
(* Data is instantiated as [u8; N], with N scaled down.                    *)
(***************************************************************************)
EXTENDS Integers, Sequences, FiniteSets, TLC

\* ---------------------------------------------------------------- bounds
MaxInst == 2        \* Secret instances that are ever created
BufLen == 2         \* N of Secret<[u8; N]> (32 in the test, scaled down)
MaxUpdates == 2     \* update_with calls made in one run
MaxReaders == 2     \* read_with calls in progress at once on one instance

\* ------------------------------------------------------------- constants
ByteMod == 256      \* u8: bytes are 0..255

Inst == 1..MaxInst
NoInst == 0
KeyLen == BufLen    \* the key length Key<Aes256Gcm> asks of the slice
\* The nonces OsRng yields and the plaintexts handed to Cipher ("s", "s!").
Nonces == {3, 11}
Plaintexts == {<<115>>, <<115, 33>>}

VARIABLES
    st,         \* st[i]: "none" | "unpinned" | "pinned" | "dropped"
    addr,       \* addr[i]: where instance i lives (0: nowhere yet)
    buf,        \* buf[i]: the buffer that instance i's `data` field owns
    store,      \* store[b]: the bytes of buffer b
    zeroed,     \* zeroed[i]: how many times i's drop zeroized its buffer
    origin,     \* origin[i]: "new" (Secret::new), "clone" (Clone::clone) or "none"
    updated,    \* updated[i]: update_with has been called on i
    nupdates,   \* update_with calls made so far
    readers,    \* readers[i]: read_with calls in progress on i
    writers,    \* writers[i]: update_with calls in progress on i
    last,       \* the last capability call: what it returned and wrote
    panic,      \* the capability call that panicked, if one did
    ciphered    \* what the caller keeps of its last successful Cipher read

vars == <<st, addr, buf, store, zeroed, origin, updated, nupdates, readers,
          writers, last, panic, ciphered>>

\* ---------------------------------------------------------------- values
Ok(v) == [tag |-> "Ok", val |-> v]
Err(c) == [tag |-> "Err", val |-> <<c>>]
Panic == [tag |-> "Panic", val |-> <<>>]
NoRet == [tag |-> "None", val |-> <<>>]

\* op: "read" | "update" | "other" (anything but a capability call), inst: the
\* instance, cap: the capability's kind, ret: what read_with / update_with
\* returned, capRet: what the capability returned, wrote: the bytes an
\* updater wrote.
Op(o, i, c, r, cr, w) ==
    [op |-> o, inst |-> i, cap |-> c, ret |-> r, capRet |-> cr, wrote |-> w]
Other == Op("other", NoInst, "none", NoRet, NoRet, <<>>)
\* on: a capability panicked, inst: the instance it was called on, wrote: how
\* many bytes it had written.
NoPanic == [on |-> FALSE, inst |-> NoInst, wrote |-> 0]
NoCipher == [plain |-> <<>>, enc |-> <<>>, nonce |-> 0, inst |-> NoInst,
             stale |-> FALSE]

Min(a, b) == IF a < b THEN a ELSE b

\* s[1] + ... + s[k], and 1 * s[1] + ... + k * s[k].
RECURSIVE SumTo(_, _)
SumTo(s, k) == IF k = 0 THEN 0 ELSE s[k] + SumTo(s, k - 1)
RECURSIVE WeightedSumTo(_, _)
WeightedSumTo(s, k) == IF k = 0 THEN 0 ELSE k * s[k] + WeightedSumTo(s, k - 1)

AllZero(n) == [k \in 1..n |-> 0]
\* The byte patterns the model's closures write: all 0xFF, and 1, 2, 3, ...
Ones(n) == [k \in 1..n |-> ByteMod - 1]
Ramp(n) == [k \in 1..n |-> k % ByteMod]

\* The first n bytes of src written over dst (a write through &mut [u8]).
Overwrite(dst, src, n) ==
    [k \in 1..Len(dst) |-> IF k <= n THEN src[k] ELSE dst[k]]

\* Data::default() for [u8; N]: N zero bytes. (DefaultUninit: a buffer that
\* keeps a byte of what the memory held before.)
DefaultUninit(n) == [k \in 1..n |-> IF k = 1 THEN 170 ELSE 0]
Default(n) == [k \in 1..n |-> 0]

\* <[u8; N] as Zeroize>::zeroize, as run by the drop of Zeroizing<Data>.
\* (ZeroizeFirst: a zeroize that stops after the first byte.)
ZeroizeFirst(d) == [k \in 1..Len(d) |-> IF k = 1 THEN 0 ELSE d[k]]
Zeroize(d) == [k \in 1..Len(d) |-> 0]

\* Unsizeable for [u8; N]: the slice over the same bytes.
get_unsized(d) == [k \in 1..Len(d) |-> d[k]]
get_unsized_mut(d) == [k \in 1..Len(d) |-> d[k]]

\* Secret::_get / Secret::_get_mut: the content behind the Zeroizing wrapper.
_get(i) == store[buf[i]]
_get_mut(i) == store[buf[i]]

Live(i) == st[i] \in {"unpinned", "pinned"}
\* A capability panicked: the owning scope is unwinding, and only drops run.
panicking == panic.on
Borrowed(i) == readers[i] > 0 \/ writers[i] > 0
\* Places: each instance has three of its own. It is created in the first,
\* a move takes it to the one of the first two it is not in, pinning moves
\* it into the third.
FirstPlace(i) == 3 * i - 2
OtherPlace(i) == IF addr[i] = 3 * i - 2 THEN 3 * i - 1 ELSE 3 * i - 2
PinPlace(i) == 3 * i

\* ---------------------------------------------------------------- updaters
\* Closures Fn(&mut [u8]) -> A (the blanket impl): one writes 0xFF bytes and
\* returns Ok, one writes 1, 2, ... and returns Err, one panics before it
\* wrote, after one byte, or after all.
Updater(kind, w, k, out, file, exists) ==
    [kind |-> kind, w |-> w, k |-> k, out |-> out, file |-> file,
     exists |-> exists]
ClosureUpdaters ==
    {Updater("closure", Ones(BufLen), BufLen, "Ok", <<>>, FALSE),
     Updater("closure", Ramp(BufLen), BufLen, "Err", <<>>, FALSE)}
    \cup {Updater("closure", Ones(BufLen), k, "Panic", <<>>, FALSE) :
            k \in {0, 1, BufLen}}

\* UpdateSecretFromFile(path): the file is absent, empty, or longer than the
\* buffer ("/01...").
FileUpdaters ==
    {Updater("file", <<>>, 0, "Ok", <<>>, e) : e \in BOOLEAN}
    \cup {Updater("file", <<>>, 0, "Ok",
                  [j \in 1..(BufLen + 1) |-> (46 + j) % ByteMod], TRUE)}

Updaters == ClosureUpdaters \cup FileUpdaters
ReturningUpdaters == {u \in Updaters : u.out # "Panic"}

\* What File::read may return for a destination of length n: at most
\* min(file length, n) bytes, possibly fewer (a short read, here of one
\* byte), 0 only at EOF.
ReadCounts(u, n) ==
    IF u.kind = "file" /\ u.exists /\ Len(u.file) > 0
    THEN {1, Min(Len(u.file), n)}
    ELSE {0}

\* UpdateSecretFromFile::update: File::open(path)?, then file.read(sec);
\* n is the count File::read returns.
FileUpdate(u, sec, n) ==
    IF ~u.exists
    THEN [sec |-> sec, ret |-> Err(2), wrote |-> <<>>]
    ELSE [sec |-> Overwrite(sec, u.file, n),
          ret |-> Ok(<<n>>),
          wrote |-> SubSeq(u.file, 1, n)]

\* SecretUpdater::update on the view sec. sec: the view after the call,
\* ret: the result, wrote: the bytes the updater wrote.
UpdaterUpdate(u, sec, n) ==
    IF u.kind = "file"
    THEN FileUpdate(u, sec, n)
    ELSE [sec |-> Overwrite(sec, u.w, u.k),
          ret |-> CASE u.out = "Ok" -> Ok(<<>>)
                    [] u.out = "Err" -> Err(1)
                    [] OTHER -> Panic,
          wrote |-> SubSeq(u.w, 1, u.k)]

\* ----------------------------------------------------------------- readers
\* Authenticated encryption under a key and a nonce (the aes_gcm crate,
\* abstracted): a keystream cipher followed by a tag over key, nonce and
\* ciphertext.
KeyMix(key) == WeightedSumTo(key, Len(key))
KeyStream(key, nonce, j) == (KeyMix(key) + 7 * nonce + j) % ByteMod
Tag(key, nonce, ct) == (KeyMix(key) + 3 * nonce + SumTo(ct, Len(ct)) + 1) % ByteMod
AeadEncrypt(key, nonce, p) ==
    LET ct == [j \in 1..Len(p) |-> (p[j] + KeyStream(key, nonce, j)) % ByteMod]
    IN  Append(ct, Tag(key, nonce, ct))
AeadDecrypt(key, nonce, enc) ==
    IF Len(enc) = 0
    THEN Err(4)
    ELSE LET ct == SubSeq(enc, 1, Len(enc) - 1)
         IN  IF enc[Len(enc)] # Tag(key, nonce, ct)
             THEN Err(4)
             ELSE Ok([j \in 1..Len(ct) |->
                        (ct[j] + ByteMod - KeyStream(key, nonce, j)) % ByteMod])

\* The pair (Vec<u8>, Nonce<U12>) as one value: the nonce, then the bytes.
PairVal(enc, nonce) == <<nonce>> \o enc
PairNonce(v) == Head(v)
PairEnc(v) == Tail(v)

Reader(k, p, m) == [kind |-> k, p |-> p, msg |-> m]

\* Closures Fn(&[u8]) -> A (the blanket impl): "identity" returns the bytes
\* it sees, "fail" returns an error, "panic" panics.
Readers == {Reader(k, <<>>, <<>>) : k \in {"identity", "fail", "panic"}}
ReturningReaders == {rd \in Readers : rd.kind # "panic"}

\* Cipher(plaintext), and Decipher(the pair the caller got from Cipher).
CryptoReaders ==
    {Reader("Cipher", p, <<>>) : p \in Plaintexts}
    \cup (IF ciphered.inst = NoInst
          THEN {}
          ELSE {Reader("Decipher", <<>>, PairVal(ciphered.enc, ciphered.nonce))})

\* Only Cipher draws a nonce.
NoncesFor(rd) == IF rd.kind = "Cipher" THEN Nonces ELSE {0}

\* <Cipher as SecretReader>::read: the slice is the key, the nonce is fresh
\* (rnd is what OsRng yields), the result is (ciphertext, nonce).
\* (CipherReadOtherNonce: the nonce returned is not the one encrypted with.)
CipherReadOtherNonce(rd, sec, rnd) ==
    IF Len(sec) # KeyLen
    THEN Panic
    ELSE Ok(PairVal(AeadEncrypt(sec, rnd, rd.p),
                    CHOOSE other \in Nonces : other # rnd))
CipherRead(rd, sec, rnd) ==
    IF Len(sec) # KeyLen
    THEN Panic
    ELSE Ok(PairVal(AeadEncrypt(sec, rnd, rd.p), rnd))

\* <Decipher as SecretReader>::read: the slice is the key, (enc, nonce) = self.0.
DecipherRead(rd, sec) ==
    IF Len(sec) # KeyLen
    THEN Panic
    ELSE AeadDecrypt(sec, PairNonce(rd.msg), PairEnc(rd.msg))

\* SecretReader::read on the view sec.
ReaderRead(rd, sec, rnd) ==
    CASE rd.kind = "identity" -> Ok(sec)
      [] rd.kind = "fail" -> Err(3)
      [] rd.kind = "Cipher" -> CipherRead(rd, sec, rnd)
      [] rd.kind = "Decipher" -> DecipherRead(rd, sec)
      [] OTHER -> Panic

\* ------------------------------------------------------------------ init
Init ==
    /\ st = [i \in Inst |-> "none"]
    /\ addr = [i \in Inst |-> 0]
    /\ buf = [i \in Inst |-> i]
    /\ store = [i \in Inst |-> Default(BufLen)]
    /\ zeroed = [i \in Inst |-> 0]
    /\ origin = [i \in Inst |-> "none"]
    /\ updated = [i \in Inst |-> FALSE]
    /\ nupdates = 0
    /\ readers = [i \in Inst |-> 0]
    /\ writers = [i \in Inst |-> 0]
    /\ last = Other
    /\ panic = NoPanic
    /\ ciphered = NoCipher

\* The next unused instance slot (instances are numbered in creation order).
Fresh(i) == st[i] = "none" /\ \A j \in Inst : j < i => st[j] # "none"

\* --------------------------------------------------------------- lifecycle
\* Secret::new(): an unpinned instance holding Data::default().
New(i) ==
    /\ ~panicking
    /\ Fresh(i)
    /\ addr' = [addr EXCEPT ![i] = FirstPlace(i)]
    /\ st' = [st EXCEPT ![i] = "unpinned"]
    /\ buf' = [buf EXCEPT ![i] = i]
    /\ store' = [store EXCEPT ![i] = Default(BufLen)]
    /\ origin' = [origin EXCEPT ![i] = "new"]
    /\ last' = Other
    /\ UNCHANGED <<zeroed, updated, nupdates, readers, writers, panic,
                   ciphered>>

\* pin!(secret) / Box::pin(secret): the value is moved into its pinned place.
Pin(i) ==
    /\ ~panicking
    /\ st[i] = "unpinned"
    /\ addr' = [addr EXCEPT ![i] = PinPlace(i)]
    /\ st' = [st EXCEPT ![i] = "pinned"]
    /\ last' = Other
    /\ UNCHANGED <<buf, store, zeroed, origin, updated, nupdates, readers,
                   writers, panic, ciphered>>

\* Secret is !Unpin (PhantomPinned): only a value that is not pinned can move.
\* (MovableIfUnpin: Secret without the PhantomPinned field.)
MovableIfUnpin(i) == Live(i)
Movable(i) == st[i] = "unpinned"

\* A move of the value (let b = a, a return, a push into a Vec).
Move(i) ==
    /\ ~panicking
    /\ Movable(i)
    /\ ~Borrowed(i)
    /\ addr' = [addr EXCEPT ![i] = OtherPlace(i)]
    /\ last' = Other
    /\ UNCHANGED <<st, buf, store, zeroed, origin, updated, nupdates, readers,
                   writers, panic, ciphered>>

\* self: Pin<&Secret<Data>> is a shared borrow, self: Pin<&mut Secret<Data>>
\* an exclusive one. (CanBorrowMutShared: update_with on a shared receiver.)
CanShare(i) == writers[i] = 0
CanBorrowMutShared(i) == writers[i] < MaxReaders
CanBorrowMut(i) == writers[i] = 0 /\ readers[i] = 0

\* derive(Clone): the buffer the clone j of i owns is its own, a copy of i's.
\* (CloneBufShared: a clone that shares the buffer of its original.)
CloneBufShared(i, j) == buf[i]
CloneBuf(i, j) == j

\* <Secret as Clone>::clone(&self), reachable on any live instance: through
\* a plain reference, or through Pin's Deref on a pinned one.
Clone(i, j) ==
    /\ ~panicking
    /\ Live(i)
    /\ CanShare(i)
    /\ Fresh(j)
    /\ addr' = [addr EXCEPT ![j] = FirstPlace(j)]
    /\ st' = [st EXCEPT ![j] = "unpinned"]
    /\ buf' = [buf EXCEPT ![j] = CloneBuf(i, j)]
    /\ store' = [store EXCEPT ![CloneBuf(i, j)] = _get(i)]
    /\ origin' = [origin EXCEPT ![j] = "clone"]
    /\ last' = Other
    /\ UNCHANGED <<zeroed, updated, nupdates, readers, writers, panic,
                   ciphered>>

\* The drop of a Secret (scope exit, early return, unwinding): Zeroizing's
\* drop zeroizes the buffer, then the memory is released. store keeps what
\* the released memory holds; the rest of the instance's record is cleared.
Drop(i) ==
    /\ Live(i)
    /\ ~Borrowed(i)
    /\ st' = [st EXCEPT ![i] = "dropped"]
    /\ store' = [store EXCEPT ![buf[i]] = Zeroize(@)]
    /\ zeroed' = [zeroed EXCEPT ![i] = @ + 1]
    /\ addr' = [addr EXCEPT ![i] = 0]
    /\ origin' = [origin EXCEPT ![i] = "none"]
    /\ updated' = [updated EXCEPT ![i] = FALSE]
    /\ last' = Other
    /\ UNCHANGED <<buf, nupdates, readers, writers, panic, ciphered>>

\* ------------------------------------------------------------- update_with
\* Secret::update_with: the updater runs on the unsized mutable view of the
\* content; its writes land in the buffer and its result is returned as is.
\* (update_with_on_copy: the updater runs on a copy of the content;
\* update_with_unwrap_or_default: an Err of the updater is replaced by Ok.)
update_with_on_copy(i, u, n) ==
    [UpdaterUpdate(u, get_unsized_mut(_get_mut(i)), n) EXCEPT !.sec = _get_mut(i)]
update_with_unwrap_or_default(i, u, n) ==
    LET r == UpdaterUpdate(u, get_unsized_mut(_get_mut(i)), n)
    IN  [r EXCEPT !.ret = IF r.ret.tag = "Err" THEN Ok(<<>>) ELSE r.ret]
update_with(i, u, n) == UpdaterUpdate(u, get_unsized_mut(_get_mut(i)), n)

\* What a finished update_with call on instance i leaves behind.
UpdateEffect(i, u, n) ==
    LET r == update_with(i, u, n)
    IN  /\ store' = [store EXCEPT ![buf[i]] = r.sec]
        /\ updated' = [updated EXCEPT ![i] = TRUE]
        /\ nupdates' = nupdates + 1
        /\ panic' = IF r.ret.tag = "Panic"
                    THEN [on |-> TRUE, inst |-> i, wrote |-> Len(r.wrote)]
                    ELSE panic
        /\ last' = Op("update", i, u.kind, r.ret,
                      UpdaterUpdate(u, get_unsized_mut(_get_mut(i)), n).ret,
                      r.wrote)
        /\ ciphered' = IF ciphered.inst = i
                       THEN [ciphered EXCEPT !.stale = TRUE]
                       ELSE ciphered

\* secret_pinned.as_mut().update_with(&u), from the call to its return (or
\* to the unwinding out of it).
UpdateWith(i, u, n) ==
    /\ ~panicking
    /\ st[i] = "pinned"
    /\ CanBorrowMut(i)
    /\ nupdates < MaxUpdates
    /\ n \in ReadCounts(u, BufLen)
    /\ UpdateEffect(i, u, n)
    /\ UNCHANGED <<st, addr, buf, zeroed, origin, readers, writers>>

\* --------------------------------------------------------------- read_with
\* Secret::read_with: the reader runs on the unsized shared view of the
\* content; ret is its result, sec the content after the call.
\* (read_with_then_zeroize: the content is erased once it has been read.)
read_with_then_zeroize(i, rd, rnd) ==
    [ret |-> ReaderRead(rd, get_unsized(_get(i)), rnd), sec |-> Zeroize(_get(i))]
read_with(i, rd, rnd) ==
    [ret |-> ReaderRead(rd, get_unsized(_get(i)), rnd), sec |-> _get(i)]

\* What a finished read_with call on instance i leaves behind.
ReadEffect(i, rd, rnd) ==
    LET r == read_with(i, rd, rnd)
    IN  /\ store' = [store EXCEPT ![buf[i]] = r.sec]
        /\ panic' = IF r.ret.tag = "Panic"
                    THEN [on |-> TRUE, inst |-> i, wrote |-> 0]
                    ELSE panic
        /\ last' = Op("read", i, rd.kind, r.ret,
                      ReaderRead(rd, get_unsized(_get(i)), rnd), <<>>)
        /\ ciphered' = IF rd.kind = "Cipher" /\ r.ret.tag = "Ok"
                       THEN [plain |-> rd.p,
                             enc |-> PairEnc(r.ret.val),
                             nonce |-> PairNonce(r.ret.val),
                             inst |-> i,
                             stale |-> FALSE]
                       ELSE ciphered

\* secret_pinned.as_ref().read_with(&rd), from the call to its return (or
\* to the unwinding out of it).
ReadWith(i, rd, rnd) ==
    /\ ~panicking
    /\ st[i] = "pinned"
    /\ CanShare(i)
    /\ ReadEffect(i, rd, rnd)
    /\ UNCHANGED <<st, addr, buf, zeroed, origin, updated, nupdates, readers,
                   writers>>

\* --------------------------------------------- calls in progress (borrows)
\* read_with is entered: the shared borrow of i begins.
BeginRead(i) ==
    /\ ~panicking
    /\ st[i] = "pinned"
    /\ CanShare(i)
    /\ readers[i] < MaxReaders
    /\ readers' = [readers EXCEPT ![i] = @ + 1]
    /\ last' = Other
    /\ UNCHANGED <<st, addr, buf, store, zeroed, origin, updated, nupdates,
                   writers, panic, ciphered>>

\* read_with returns: the reader's result is handed back, the borrow ends.
EndRead(i, rd) ==
    /\ readers[i] > 0
    /\ readers' = [readers EXCEPT ![i] = @ - 1]
    /\ ReadEffect(i, rd, 0)
    /\ UNCHANGED <<st, addr, buf, zeroed, origin, updated, nupdates, writers>>

\* update_with is entered: the exclusive borrow of i begins.
BeginUpdate(i) ==
    /\ ~panicking
    /\ st[i] = "pinned"
    /\ CanBorrowMut(i)
    /\ nupdates < MaxUpdates
    /\ writers' = [writers EXCEPT ![i] = @ + 1]
    /\ last' = Other
    /\ UNCHANGED <<st, addr, buf, store, zeroed, origin, updated, nupdates,
                   readers, panic, ciphered>>

\* update_with returns: the updater's writes are in the buffer, its result
\* is handed back, the borrow ends.
EndUpdate(i, u, n) ==
    /\ writers[i] > 0
    /\ writers' = [writers EXCEPT ![i] = @ - 1]
    /\ n \in ReadCounts(u, BufLen)
    /\ UpdateEffect(i, u, n)
    /\ UNCHANGED <<st, addr, buf, zeroed, origin, readers>>

\* ------------------------------------------------------------------- specs
\* The lifecycle, each capability call as one step.
Next ==
    \/ \E i \in Inst : New(i)
    \/ \E i \in Inst : Pin(i)
    \/ \E i \in Inst : Move(i)
    \/ \E i, j \in Inst : Clone(i, j)
    \/ \E i \in Inst, u \in Updaters, n \in 0..BufLen : UpdateWith(i, u, n)
    \/ \E i \in Inst, rd \in Readers : ReadWith(i, rd, 0)
    \/ \E i \in Inst : Drop(i)

Spec == Init /\ [][Next]_vars

\* The lifecycle with the calls' borrows spelled out: a call begins, others
\* may begin or end, and it returns.
NextBorrow ==
    \/ \E i \in Inst : New(i)
    \/ \E i \in Inst : Pin(i)
    \/ \E i \in Inst : BeginRead(i)
    \/ \E i \in Inst, rd \in ReturningReaders : EndRead(i, rd)
    \/ \E i \in Inst : BeginUpdate(i)
    \/ \E i \in Inst, u \in ReturningUpdaters \cap ClosureUpdaters :
            EndUpdate(i, u, 0)
    \/ \E i \in Inst : Drop(i)

SpecBorrow == Init /\ [][NextBorrow]_vars

\* The secret as a cipher key: filled by an updater, read by Cipher and
\* Decipher.
NextCrypto ==
    \/ \E i \in Inst : New(i)
    \/ \E i \in Inst : Pin(i)
    \/ \E i \in Inst, u \in FileUpdaters, n \in 0..BufLen : UpdateWith(i, u, n)
    \/ \E i \in Inst, rd \in CryptoReaders :
            \E rnd \in NoncesFor(rd) : ReadWith(i, rd, rnd)
    \/ \E i \in Inst : Drop(i)

SpecCrypto == Init /\ [][NextCrypto]_vars

\* ------------------------------------------------------------------ claims
NonZero(d) == \E k \in 1..Len(d) : d[k] # 0

\* C1: every instance that is destroyed has its whole buffer zero from its
\* destruction on and was zeroized exactly once, and no live instance was
\* zeroized yet, whichever way its scope ended (scope exit, early return,
\* unwinding out of a capability that panicked, possibly after a partial write).
C1_ZeroOnDrop ==
    \A i \in Inst :
        /\ st[i] = "dropped" => store[buf[i]] = AllZero(BufLen) /\ zeroed[i] = 1
        /\ st[i] # "dropped" => zeroed[i] = 0

\* C1 witness: an updater wrote one byte and panicked, and the unwinding
\* dropped the instance.
C1_Witness ==
    /\ panicking
    /\ panic.wrote = 1
    /\ st[panic.inst] = "dropped"
    /\ zeroed[panic.inst] = 1

\* C2: a pinned instance stays pinned until it is dropped, and no step
\* changes its address while it is pinned.
C2_PinnedAddressFixed ==
    [][\A i \in Inst :
          st[i] = "pinned" =>
              \/ st'[i] = "pinned" /\ addr'[i] = addr[i]
              \/ st'[i] = "dropped"]_vars

\* C2 witness: a pinned instance that was updated and read, with another
\* instance cloned from it, still at the place it was pinned in.
C2_Witness ==
    /\ st[1] = "pinned"
    /\ updated[1]
    /\ last.op = "read"
    /\ last.inst = 1
    /\ origin[2] = "clone"
    /\ addr[1] = PinPlace(1)

\* C3: every instance that is not pinned holds the default (zero) content.
C3_UnpinnedIsDefault ==
    \A i \in Inst : st[i] = "unpinned" => store[buf[i]] = AllZero(BufLen)

\* C4: a read_with on an instance made by new(), before any update_with on
\* it, observes the all-zero value.
C4_DefaultBeforeUpdate ==
    (/\ last.op = "read"
     /\ last.cap = "identity"
     /\ Live(last.inst)
     /\ origin[last.inst] = "new"
     /\ ~updated[last.inst])
        => last.ret = Ok(AllZero(BufLen))

\* C4 witness: such a read has happened.
C4_Witness ==
    /\ last.op = "read"
    /\ last.cap = "identity"
    /\ st[last.inst] = "pinned"
    /\ origin[last.inst] = "new"
    /\ ~updated[last.inst]

\* C5: when update_with returned Ok and the next step is a read_with of the
\* same instance with the identity reader, the reader returns the buffer
\* whose leading bytes are exactly the bytes the updater wrote.
C5_ReadAfterUpdate ==
    [][(/\ last.op = "update"
        /\ last.ret.tag = "Ok"
        /\ last'.op = "read"
        /\ last'.cap = "identity"
        /\ last'.inst = last.inst)
          => /\ last'.ret.tag = "Ok"
             /\ Len(last'.ret.val) = BufLen
             /\ SubSeq(last'.ret.val, 1, Len(last.wrote)) = last.wrote]_vars

\* C5 witness: an identity read that returned non-zero bytes (so an updater
\* wrote them before it).
C5_Witness ==
    /\ last.op = "read"
    /\ last.cap = "identity"
    /\ last.ret.tag = "Ok"
    /\ NonZero(last.ret.val)
    /\ nupdates = 1

\* C6: the content of a live instance changes only in an update_with on that
\* very instance: not when another instance (its clone, its original) is
\* dropped, updated, read, cloned, pinned or moved.
C6_CloneIndependent ==
    [][\A i \in Inst :
          (Live(i) /\ st'[i] \in {"unpinned", "pinned"}
           /\ ~(last'.op = "update" /\ last'.inst = i /\ nupdates' # nupdates))
              => store'[buf'[i]] = store[buf[i]]]_vars

\* C6 witness: the original was dropped, and its clone still holds the
\* non-zero content it was cloned with.
C6_Witness ==
    /\ st[1] = "dropped"
    /\ origin[2] = "clone"
    /\ Live(2)
    /\ NonZero(store[buf[2]])
    /\ ~updated[2]

\* C7: read_with and update_with return exactly what the capability returned.
C7_PassThrough ==
    last.op \in {"read", "update"} => last.ret = last.capRet

\* C7 witness: a capability returned an error, and the caller got it.
C7_Witness ==
    /\ last.op = "update"
    /\ last.cap = "file"
    /\ last.ret = Err(2)

\* C8: on one instance, at most one update_with is in progress, and none
\* while a read_with is.
C8_ReadXorWrite ==
    \A i \in Inst : writers[i] <= 1 /\ (writers[i] = 1 => readers[i] = 0)

\* C8 witness: two read_with calls overlap on an instance, while an
\* update_with is in progress on another.
C8_Witness ==
    \E i, j \in Inst : readers[i] = 2 /\ writers[j] = 1

\* C9: Decipher, given what Cipher returned for plaintext P on the same
\* instance, not updated in between, returns exactly P.
C9_RoundTrip ==
    (/\ last.op = "read"
     /\ last.cap = "Decipher"
     /\ last.inst = ciphered.inst
     /\ ~ciphered.stale)
        => last.ret = Ok(ciphered.plain)

\* C9 witness: such a Decipher read, under a key an updater has set.
C9_Witness ==
    /\ last.op = "read"
    /\ last.cap = "Decipher"
    /\ last.inst = ciphered.inst
    /\ ~ciphered.stale
    /\ updated[last.inst]
    /\ NonZero(store[buf[last.inst]])
    /\ Len(ciphered.plain) = 2

\* C10: a read_with step leaves the content of every buffer as it was.
C10_ReadKeepsContent ==
    [][last'.op = "read" => store' = store]_vars

\* C10 witness: a read_with of an instance with non-zero content, right
\* after which the content is still what the identity reader saw.
C10_Witness ==
    /\ last.op = "read"
    /\ last.cap = "identity"
    /\ NonZero(store[buf[last.inst]])
    /\ last.ret = Ok(store[buf[last.inst]])

====
